---- MODULE Spec2Model ----
(***************************************************************************)
(* A model of rust-trainee/json_parser: the tokenizer (src/tokenize.rs),   *)
(* the recursive-descent parser over tokens (src/parse.rs) and string      *)
(* unescaping (src/parse.rs).                                              *)
(*                                                                         *)
(* Characters are Unicode code points (naturals).  Indices are 0-based as  *)
(* in the source; a sequence s of the source is read as s[i] == seq[i+1].  *)
(* A Rust panic (slice index out of bounds, todo!()) is a result of its    *)
(* own, status "panic", distinct from the Err values the functions return. *)
(***************************************************************************)
EXTENDS Integers, Sequences, FiniteSets, TLC

VARIABLES chars, tphase, tstart, tres,
          tokens, pphase, pres,
          raw, uphase, ures

vars == <<chars, tphase, tstart, tres, tokens, pphase, pres, raw, uphase, ures>>
tvars == <<chars, tphase, tstart, tres>>
pvars == <<tokens, pphase, pres>>
uvars == <<raw, uphase, ures>>

(***************************************************************************)
(* Bounds of the model.                                                    *)
(***************************************************************************)
MaxInput == 5
MaxTokens == 9
MaxRaw == 3

(***************************************************************************)
(* Characters the source names in its match arms.                          *)
(***************************************************************************)
Quote == 34
Comma == 44
Dot == 46
Colon == 58
LeftBracket == 91
Backslash == 92
RightBracket == 93
LeftBrace == 123
RightBrace == 125
Ch_b == 98
Ch_f == 102
Ch_n == 110
Ch_r == 114
Ch_t == 116
Ch_u == 117

Lit_null == <<110, 117, 108, 108>>
Lit_true == <<116, 114, 117, 101>>
Lit_false == <<102, 97, 108, 115, 101>>

\* char::is_ascii_digit
IsAsciiDigit(c) == c \in 48..57

\* char::is_whitespace: the Unicode White_Space property
IsWhitespace(c) ==
    c \in (9..13) \cup {32, 133, 160, 5760} \cup (8192..8202)
          \cup {8232, 8233, 8239, 8287, 12288}

(***************************************************************************)
(* Tokens.  Every token is a record [type, val]; val is <<>> for the       *)
(* variants that carry no data.                                            *)
(***************************************************************************)
Tok(type) == [type |-> type, val |-> <<>>]
TokNumber(n) == [type |-> "Number", val |-> n]
TokString(s) == [type |-> "String", val |-> s]

(***************************************************************************)
(* TokenizeError values and the results of the tokenizer's functions.      *)
(***************************************************************************)
NoErr == [name |-> "none", ch |-> 0]
TokenizeErr(name) == [name |-> name, ch |-> 0]
CharNotRecognized(c) == [name |-> "CharNotRecognized", ch |-> c]

NoTok == Tok("none")

\* Ok(token) with the cursor left at index
TokOk(token, index) ==
    [status |-> "ok", token |-> token, err |-> NoErr, index |-> index]
\* Err(e)
TokErr(e, index) ==
    [status |-> "err", token |-> NoTok, err |-> e, index |-> index]
\* chars[index] with index >= chars.len(): the slice index panics
TokPanic(index) ==
    [status |-> "panic", token |-> NoTok, err |-> NoErr, index |-> index]

(***************************************************************************)
(* tokenize_literal: compare the literal character by character with the   *)
(* input under the cursor, advancing the cursor; then step back one.       *)
(***************************************************************************)
RECURSIVE LiteralLoop(_, _, _, _, _)
LiteralLoop(cs, index, literal, k, token) ==
    IF k > Len(literal) THEN TokOk(token, index - 1)
    ELSE IF index >= Len(cs) THEN TokPanic(index)
    ELSE IF literal[k] # cs[index + 1]
         THEN TokErr(TokenizeErr("UnfinishedLiteralValue"), index)
    ELSE LiteralLoop(cs, index + 1, literal, k + 1, token)

TokenizeLiteral(cs, index, literal, token) ==
    LiteralLoop(cs, index, literal, 1, token)

(***************************************************************************)
(* str::parse::<f64> on a text of ASCII digits and '.' (the only           *)
(* characters tokenize_float collects).  The text is a float literal iff   *)
(* it has at most one '.' and at least one digit.  The value is the exact  *)
(* decimal <<m, s>> = m / 10^s with no trailing zero in the fraction, so   *)
(* that 16 and 16.0 are the same number.                                   *)
(***************************************************************************)
RECURSIVE DigitsValue(_)
DigitsValue(ds) ==
    IF ds = <<>> THEN 0
    ELSE 10 * DigitsValue(SubSeq(ds, 1, Len(ds) - 1)) + (ds[Len(ds)] - 48)

RECURSIVE Normalize(_, _)
Normalize(m, s) ==
    IF s > 0 /\ m % 10 = 0 THEN Normalize(m \div 10, s - 1) ELSE <<m, s>>

ParseF64(text) ==
    LET dots == {i \in 1..Len(text) : text[i] = Dot}
        digits == SelectSeq(text, IsAsciiDigit)
    IN  IF /\ Cardinality(dots) <= 1
           /\ Len(digits) >= 1
           /\ \A i \in 1..Len(text) : IsAsciiDigit(text[i]) \/ text[i] = Dot
        THEN LET scale == IF dots = {} THEN 0
                          ELSE Len(text) - (CHOOSE i \in dots : TRUE)
             IN  [ok |-> TRUE, val |-> Normalize(DigitsValue(digits), scale)]
        ELSE [ok |-> FALSE, val |-> <<0, 0>>]

(***************************************************************************)
(* tokenize_float: collect digits and at most one '.', step back one       *)
(* character, parse the collected text.  make_token calls it on a digit,   *)
(* so the loop advances the cursor at least once before the step back.     *)
(***************************************************************************)
RECURSIVE FloatLoop(_, _, _, _)
FloatLoop(cs, index, unparsed_num, has_decimal) ==
    IF index >= Len(cs) THEN [index |-> index, text |-> unparsed_num]
    ELSE LET ch == cs[index + 1]
         IN  IF IsAsciiDigit(ch)
             THEN FloatLoop(cs, index + 1, Append(unparsed_num, ch), has_decimal)
             ELSE IF ch = Dot /\ ~has_decimal
             THEN FloatLoop(cs, index + 1, Append(unparsed_num, ch), TRUE)
             ELSE [index |-> index, text |-> unparsed_num]

TokenizeFloat(cs, index) ==
    LET l == FloatLoop(cs, index, <<>>, FALSE)
        num == ParseF64(l.text)
    IN  IF num.ok THEN TokOk(TokNumber(num.val), l.index - 1)
        ELSE TokErr(TokenizeErr("ParseNumberError"), l.index - 1)

(***************************************************************************)
(* tokenize_string: push characters verbatim until a quote that is not     *)
(* escaped; the cursor is left on that quote.                              *)
(***************************************************************************)
\* a slip: a backslash sets the flag instead of toggling it
RECURSIVE StringLoop_set(_, _, _, _)
StringLoop_set(cs, index, string, is_escaping) ==
    LET i == index + 1
    IN  IF i >= Len(cs) THEN TokErr(TokenizeErr("UnclosedQuotes"), i)
        ELSE LET ch == cs[i + 1]
             IN  IF ch = Quote /\ ~is_escaping THEN TokOk(TokString(string), i)
                 ELSE IF ch = Backslash
                 THEN StringLoop_set(cs, i, Append(string, ch), TRUE)
                 ELSE StringLoop_set(cs, i, Append(string, ch), FALSE)

RECURSIVE StringLoop(_, _, _, _)
StringLoop(cs, index, string, is_escaping) ==
    LET i == index + 1
    IN  IF i >= Len(cs) THEN TokErr(TokenizeErr("UnclosedQuotes"), i)
        ELSE LET ch == cs[i + 1]
             IN  IF ch = Quote /\ ~is_escaping THEN TokOk(TokString(string), i)
                 ELSE IF ch = Backslash
                 THEN StringLoop(cs, i, Append(string, ch), ~is_escaping)
                 ELSE StringLoop(cs, i, Append(string, ch), FALSE)

TokenizeString(cs, index) == StringLoop(cs, index, <<>>, FALSE)

(***************************************************************************)
(* make_token: dispatch on the character under the cursor.                 *)
(***************************************************************************)
\* a slip: a '.' starts a number as a digit does
MakeToken_dot(cs, index) ==
    IF index >= Len(cs) THEN TokPanic(index)
    ELSE LET ch == cs[index + 1]
         IN  CASE ch = LeftBracket -> TokOk(Tok("LeftBracket"), index)
               [] ch = RightBracket -> TokOk(Tok("RightBracket"), index)
               [] ch = LeftBrace -> TokOk(Tok("LeftBrace"), index)
               [] ch = RightBrace -> TokOk(Tok("RightBrace"), index)
               [] ch = Comma -> TokOk(Tok("Comma"), index)
               [] ch = Colon -> TokOk(Tok("Colon"), index)
               [] ch = Ch_n -> TokenizeLiteral(cs, index, Lit_null, Tok("Null"))
               [] ch = Ch_t -> TokenizeLiteral(cs, index, Lit_true, Tok("True"))
               [] ch = Ch_f -> TokenizeLiteral(cs, index, Lit_false, Tok("False"))
               [] IsAsciiDigit(ch) \/ ch = Dot -> TokenizeFloat(cs, index)
               [] ch = Quote -> TokenizeString(cs, index)
               [] OTHER -> TokErr(CharNotRecognized(ch), index)

MakeToken(cs, index) ==
    IF index >= Len(cs) THEN TokPanic(index)
    ELSE LET ch == cs[index + 1]
         IN  CASE ch = LeftBracket -> TokOk(Tok("LeftBracket"), index)
               [] ch = RightBracket -> TokOk(Tok("RightBracket"), index)
               [] ch = LeftBrace -> TokOk(Tok("LeftBrace"), index)
               [] ch = RightBrace -> TokOk(Tok("RightBrace"), index)
               [] ch = Comma -> TokOk(Tok("Comma"), index)
               [] ch = Colon -> TokOk(Tok("Colon"), index)
               [] ch = Ch_n -> TokenizeLiteral(cs, index, Lit_null, Tok("Null"))
               [] ch = Ch_t -> TokenizeLiteral(cs, index, Lit_true, Tok("True"))
               [] ch = Ch_f -> TokenizeLiteral(cs, index, Lit_false, Tok("False"))
               [] IsAsciiDigit(ch) -> TokenizeFloat(cs, index)
               [] ch = Quote -> TokenizeString(cs, index)
               [] OTHER -> TokErr(CharNotRecognized(ch), index)

(***************************************************************************)
(* tokenize: the scan loop.  The result also records calls, the cursor     *)
(* positions at which make_token was called, in order.                     *)
(***************************************************************************)
TokenizeResult(status, toks, err, index, calls) ==
    [status |-> status, tokens |-> toks, err |-> err, index |-> index,
     calls |-> calls]

RECURSIVE TokenizeLoop(_, _, _, _)
TokenizeLoop(cs, index, toks, calls) ==
    IF index >= Len(cs) THEN TokenizeResult("ok", toks, NoErr, index, calls)
    ELSE IF IsWhitespace(cs[index + 1])
         THEN TokenizeLoop(cs, index + 1, toks, calls)
    ELSE LET r == MakeToken(cs, index)
         IN  IF r.status = "ok"
             THEN TokenizeLoop(cs, r.index + 1, Append(toks, r.token),
                               Append(calls, index))
             ELSE TokenizeResult(r.status, <<>>, r.err, r.index,
                                 Append(calls, index))

Tokenize(cs) == TokenizeLoop(cs, 0, <<>>, <<>>)

(***************************************************************************)
(* Values.  Every value is a record [kind, val].  An Object's val is a     *)
(* function from its keys (unescaped strings) to values, as the HashMap.   *)
(***************************************************************************)
V(kind, val) == [kind |-> kind, val |-> val]
VNull == V("Null", <<>>)
VBoolean(b) == V("Boolean", b)
VNumber(n) == V("Number", n)
VString(s) == V("String", s)
VArray(a) == V("Array", a)
VObject(m) == V("Object", m)
NoValue == V("none", <<>>)

EmptyMap == [k \in {} |-> NoValue]

\* a slip: a key already present keeps its old value
MapInsert_keepFirst(map, key, value) ==
    [k \in (DOMAIN map) \cup {key} |-> IF k \in DOMAIN map THEN map[k] ELSE value]

\* HashMap::insert: a key already present keeps one entry, with the new value
MapInsert(map, key, value) ==
    [k \in (DOMAIN map) \cup {key} |-> IF k = key THEN value ELSE map[k]]

(***************************************************************************)
(* Results of unescape_string: Ok(output) or Err(TokenParseError).         *)
(***************************************************************************)
UOk(output) == [status |-> "ok", out |-> output, err |-> "none"]
UErr(e) == [status |-> "err", out |-> <<>>, err |-> e]

\* char::to_digit(16): the digit's value, or -1 for None
ToDigit16(c) ==
    IF c \in 48..57 THEN c - 48
    ELSE IF c \in 97..102 THEN c - 87
    ELSE IF c \in 65..70 THEN c - 55
    ELSE -1

\* char::from_u32: Some(char) iff the value is a Unicode scalar value
CharFromU32Ok(n) == n <= 1114111 /\ ~(n \in 55296..57343)

\* a slip: the digits weighted in the reverse order
Pow16_reversed(e) == IF e = 0 THEN 4096 ELSE IF e = 1 THEN 256 ELSE IF e = 2 THEN 16 ELSE 1

\* (16u32).pow(e) for the exponents 0..3 the loop uses
Pow16(e) == IF e = 0 THEN 1 ELSE IF e = 1 THEN 16 ELSE IF e = 2 THEN 256 ELSE 4096

\* a slip: the arms for 'n' and 'r' exchanged
EscapedChar_swapped(c) ==
    CASE c = Quote -> Quote
      [] c = Backslash -> Backslash
      [] c = Ch_b -> 8
      [] c = Ch_f -> 18
      [] c = Ch_n -> 13
      [] c = Ch_r -> 10
      [] c = Ch_t -> 9
      [] OTHER -> c

\* the arms of the match on an escaped character, 'u' aside
EscapedChar(c) ==
    CASE c = Quote -> Quote
      [] c = Backslash -> Backslash
      [] c = Ch_b -> 8
      [] c = Ch_f -> 18
      [] c = Ch_n -> 10
      [] c = Ch_r -> 13
      [] c = Ch_t -> 9
      [] OTHER -> c

(***************************************************************************)
(* The loop for i in 0..4 of the 'u' arm: pos is the position of the next  *)
(* character the iterator yields (1-based).  sum is a u32; four digits     *)
(* give at most 65535, so the additions never wrap.                        *)
(***************************************************************************)
RECURSIVE HexLoop(_, _, _, _)
HexLoop(input, pos, i, sum) ==
    IF i = 4 THEN [status |-> "ok", sum |-> sum, err |-> "none"]
    ELSE IF pos > Len(input)
         THEN [status |-> "err", sum |-> sum, err |-> "UnfinishedEscape"]
    ELSE LET digit == ToDigit16(input[pos])
         IN  IF digit < 0
             THEN [status |-> "err", sum |-> sum, err |-> "InvalidHexValue"]
             ELSE HexLoop(input, pos + 1, i + 1, sum + Pow16(3 - i) * digit)

(***************************************************************************)
(* unescape_string: the while-let loop over the input's characters.        *)
(***************************************************************************)
RECURSIVE UnescapeLoop(_, _, _, _)
UnescapeLoop(input, pos, output, is_escaping) ==
    IF pos > Len(input) THEN UOk(output)
    ELSE LET next_char == input[pos]
         IN  IF is_escaping
             THEN IF next_char = Ch_u
                  THEN LET h == HexLoop(input, pos + 1, 0, 0)
                       IN  IF h.status # "ok" THEN UErr(h.err)
                           ELSE IF ~CharFromU32Ok(h.sum)
                           THEN UErr("InvalidCodePointValue")
                           ELSE UnescapeLoop(input, pos + 5,
                                             Append(output, h.sum), FALSE)
                  ELSE UnescapeLoop(input, pos + 1,
                                    Append(output, EscapedChar(next_char)), FALSE)
             ELSE IF next_char = Backslash
             THEN UnescapeLoop(input, pos + 1, output, TRUE)
             ELSE UnescapeLoop(input, pos + 1, Append(output, next_char), FALSE)

UnescapeString(input) == UnescapeLoop(input, 1, <<>>, FALSE)

(***************************************************************************)
(* Results of the parser's functions: Ok(value) or Err(TokenParseError),   *)
(* with the shared cursor as the function left it, or a panic.             *)
(***************************************************************************)
POk(v, index) == [status |-> "ok", val |-> v, err |-> "none", index |-> index]
PErr(e, index) == [status |-> "err", val |-> NoValue, err |-> e, index |-> index]
\* tokens[index] with index >= tokens.len(), or todo!()
PPanic(why, index) ==
    [status |-> "panic", val |-> NoValue, err |-> why, index |-> index]

\* parse_string
ParseString(input, index) ==
    LET u == UnescapeString(input)
    IN  IF u.status = "ok" THEN POk(VString(u.out), index) ELSE PErr(u.err, index)

(***************************************************************************)
(* parse_tokens, parse_array and parse_object.  ArrayLoop and ObjectLoop   *)
(* are one pass of the loops, entered with the cursor on the opening       *)
(* bracket or on the comma before the next element.                        *)
(***************************************************************************)
RECURSIVE ParseTokens(_, _)
RECURSIVE ArrayLoop(_, _, _)
RECURSIVE ObjectLoop(_, _, _)
RECURSIVE ArrayLoop_strict(_, _, _)
RECURSIVE ObjectLoop_swapped(_, _, _)

\* a slip: the closing bracket is looked for before the first element only
ArrayLoop_strict(toks, index, array) ==
    LET i == index + 1
    IN  IF i >= Len(toks) THEN PPanic("index_out_of_bounds", i)
        ELSE IF toks[i + 1].type = "RightBracket" /\ array = <<>>
        THEN POk(VArray(array), i + 1)
        ELSE LET r == ParseTokens(toks, i)
             IN  IF r.status # "ok" THEN r
                 ELSE IF r.index >= Len(toks)
                 THEN PPanic("index_out_of_bounds", r.index)
                 ELSE LET token == toks[r.index + 1]
                      IN  CASE token.type = "Comma" ->
                                 ArrayLoop_strict(toks, r.index, Append(array, r.val))
                            [] token.type = "RightBracket" ->
                                 POk(VArray(Append(array, r.val)), r.index + 1)
                            [] OTHER -> PErr("ExpectedComma", r.index)


ArrayLoop(toks, index, array) ==
    LET i == index + 1
    IN  IF i >= Len(toks) THEN PPanic("index_out_of_bounds", i)
        ELSE IF toks[i + 1].type = "RightBracket" THEN POk(VArray(array), i + 1)
        ELSE LET r == ParseTokens(toks, i)
             IN  IF r.status # "ok" THEN r
                 ELSE IF r.index >= Len(toks)
                 THEN PPanic("index_out_of_bounds", r.index)
                 ELSE LET token == toks[r.index + 1]
                      IN  CASE token.type = "Comma" ->
                                 ArrayLoop(toks, r.index, Append(array, r.val))
                            [] token.type = "RightBracket" ->
                                 POk(VArray(Append(array, r.val)), r.index + 1)
                            [] OTHER -> PErr("ExpectedComma", r.index)

ParseArray(toks, index) == ArrayLoop(toks, index, <<>>)

\* a slip: ExpectedProperty and ExpectedColon exchanged
ObjectLoop_swapped(toks, index, map) ==
    LET i == index + 1
    IN  IF i >= Len(toks) THEN PPanic("index_out_of_bounds", i)
        ELSE IF toks[i + 1].type = "RightBrace" THEN POk(VObject(map), i + 1)
        ELSE IF toks[i + 1].type # "String" THEN PErr("ExpectedColon", i)
        ELSE IF i + 1 >= Len(toks) THEN PPanic("index_out_of_bounds", i + 1)
        ELSE IF toks[i + 2].type # "Colon" THEN PErr("ExpectedProperty", i + 1)
        ELSE LET key == UnescapeString(toks[i + 1].val)
             IN  IF key.status # "ok" THEN PErr(key.err, i + 2)
                 ELSE LET r == ParseTokens(toks, i + 2)
                      IN  IF r.status # "ok" THEN r
                          ELSE IF r.index >= Len(toks)
                          THEN PPanic("index_out_of_bounds", r.index)
                          ELSE LET token == toks[r.index + 1]
                                   m == MapInsert(map, key.out, r.val)
                               IN  CASE token.type = "Comma" ->
                                          ObjectLoop_swapped(toks, r.index, m)
                                     [] token.type = "RightBrace" ->
                                          POk(VObject(m), r.index + 1)
                                     [] OTHER -> PErr("ExpectedComma", r.index)

ObjectLoop(toks, index, map) ==
    LET i == index + 1
    IN  IF i >= Len(toks) THEN PPanic("index_out_of_bounds", i)
        ELSE IF toks[i + 1].type = "RightBrace" THEN POk(VObject(map), i + 1)
        ELSE IF toks[i + 1].type # "String" THEN PErr("ExpectedProperty", i)
        ELSE IF i + 1 >= Len(toks) THEN PPanic("index_out_of_bounds", i + 1)
        ELSE IF toks[i + 2].type # "Colon" THEN PErr("ExpectedColon", i + 1)
        ELSE LET key == UnescapeString(toks[i + 1].val)
             IN  IF key.status # "ok" THEN PErr(key.err, i + 2)
                 ELSE LET r == ParseTokens(toks, i + 2)
                      IN  IF r.status # "ok" THEN r
                          ELSE IF r.index >= Len(toks)
                          THEN PPanic("index_out_of_bounds", r.index)
                          ELSE LET token == toks[r.index + 1]
                                   m == MapInsert(map, key.out, r.val)
                               IN  CASE token.type = "Comma" ->
                                          ObjectLoop(toks, r.index, m)
                                     [] token.type = "RightBrace" ->
                                          POk(VObject(m), r.index + 1)
                                     [] OTHER -> PErr("ExpectedComma", r.index)

ParseObject(toks, index) == ObjectLoop(toks, index, EmptyMap)

ParseTokens(toks, index) ==
    IF index >= Len(toks) THEN PPanic("index_out_of_bounds", index)
    ELSE LET token == toks[index + 1]
         IN  CASE token.type = "Null" -> POk(VNull, index + 1)
               [] token.type = "False" -> POk(VBoolean(FALSE), index + 1)
               [] token.type = "True" -> POk(VBoolean(TRUE), index + 1)
               [] token.type = "Number" -> POk(VNumber(token.val), index + 1)
               [] token.type = "String" -> ParseString(token.val, index + 1)
               [] token.type = "LeftBracket" -> ParseArray(toks, index)
               [] token.type = "LeftBrace" -> ParseObject(toks, index)
               [] OTHER -> PPanic("todo", index)

(***************************************************************************)
(* The tokenizer's specification.  The input text is built one character   *)
(* at a time; tokenize is then applied to the whole text, or make_token to *)
(* one of the cursor positions at which tokenize calls it.  Outside a      *)
(* string the characters come from TChars.  Inside a string that is still  *)
(* open (tokenize ends in UnclosedQuotes) they come from SChars: the scan  *)
(* of a string tells the quote and the backslash from all others only.  A  *)
(* text on which tokenize has returned another error is not extended:      *)
(* tokenize stops at that error, whatever follows it.                      *)
(***************************************************************************)
TChars == {32, Quote, Dot, 49, LeftBracket, Backslash,
           97, 101, 108, Ch_n, Ch_r, 115, Ch_t, Ch_u, Ch_f}

SChars == {32, Quote, Backslash, Ch_n, Ch_u}

NoTokRes == TokenizeResult("none", <<>>, NoErr, 0, <<>>)
NoParseRes == [status |-> "none", val |-> NoValue, err |-> "none", index |-> 0]
NoUnescRes == [status |-> "none", out |-> <<>>, err |-> "none"]

\* The characters that may extend the text cs
NextChars(cs) ==
    LET r == Tokenize(cs)
    IN  IF r.status = "err"
        THEN IF r.err.name = "UnclosedQuotes" THEN SChars ELSE {}
        ELSE TChars

TInit ==
    /\ chars = <<>> /\ tphase = "input" /\ tstart = 0 /\ tres = NoTokRes
    /\ tokens = <<>> /\ pphase = "input" /\ pres = NoParseRes
    /\ raw = <<>> /\ uphase = "input" /\ ures = NoUnescRes

TAppend ==
    /\ tphase = "input"
    /\ Len(chars) < MaxInput
    /\ \E c \in NextChars(chars) : chars' = Append(chars, c)
    /\ UNCHANGED <<tphase, tstart, tres, pvars, uvars>>

DoTokenize ==
    /\ tphase = "input"
    /\ tphase' = "tokenize"
    /\ tres' = Tokenize(chars)
    /\ UNCHANGED <<chars, tstart, pvars, uvars>>

DoMakeToken ==
    /\ tphase = "input"
    /\ LET calls == Tokenize(chars).calls
       IN  \E k \in 1..Len(calls) :
             LET i == calls[k]
                 r == MakeToken(chars, i)
             IN  /\ tstart' = i
                 /\ tres' = TokenizeResult(r.status,
                                IF r.status = "ok" THEN <<r.token>> ELSE <<>>,
                                r.err, r.index, <<i>>)
    /\ tphase' = "make_token"
    /\ UNCHANGED <<chars, pvars, uvars>>

TNext ==
    \/ TAppend
    \/ DoTokenize
    \/ DoMakeToken

SpecTokenize == TInit /\ [][TNext]_vars

(***************************************************************************)
(* The parser's specification.  The token sequence is built one token at a *)
(* time from PTokens and parse_tokens is applied to it at cursor 0, as the *)
(* facade and the tests do.  A sequence is extended while parse_tokens     *)
(* runs out of tokens on it, and once more after a value is complete:      *)
(* parse_tokens reads the tokens in order and never reads past the point   *)
(* where it returns.                                                       *)
(***************************************************************************)
Str_a == <<97>>
Str_u0061 == <<Backslash, Ch_u, 48, 48, 54, 49>>
Str_u == <<Backslash, Ch_u>>

PTokens ==
    {Tok("LeftBrace"), Tok("RightBrace"), Tok("LeftBracket"), Tok("RightBracket"),
     Tok("Comma"), Tok("Colon"), Tok("Null"), Tok("True"),
     TokNumber(<<1, 0>>), TokString(Str_a), TokString(Str_u0061), TokString(Str_u)}

TokensOpen(toks) ==
    LET r == ParseTokens(toks, 0)
    IN  \/ r.status = "panic" /\ r.err = "index_out_of_bounds"
        \/ r.status = "ok" /\ r.index = Len(toks)

Init ==
    /\ chars = <<>> /\ tphase = "input" /\ tstart = 0 /\ tres = NoTokRes
    /\ tokens = <<>> /\ pphase = "input" /\ pres = NoParseRes
    /\ raw = <<>> /\ uphase = "input" /\ ures = NoUnescRes

PAppend ==
    /\ pphase = "input"
    /\ Len(tokens) < MaxTokens
    /\ TokensOpen(tokens)
    /\ \E t \in PTokens : tokens' = Append(tokens, t)
    /\ UNCHANGED <<pphase, pres, tvars, uvars>>

DoParse ==
    /\ pphase = "input"
    /\ pphase' = "parsed"
    /\ pres' = ParseTokens(tokens, 0)
    /\ UNCHANGED <<tokens, tvars, uvars>>

Next ==
    \/ PAppend
    \/ DoParse

Spec == Init /\ [][Next]_vars

(***************************************************************************)
(* The specification of unescape_string.  The raw string is built from     *)
(* single characters of UChars and from whole escapes \uXXXX with the      *)
(* digits of UHex.  A raw string on which unescape_string ends in          *)
(* UnfinishedEscape is extended by single characters only, and always may  *)
(* be.                                                                     *)
(***************************************************************************)
UChars == {Backslash, Ch_u, Quote, Ch_b, Ch_f, Ch_n, Ch_r, Ch_t, 47, 103, 48}

UHex ==
    {<<68, 55, 70, 70>>, <<68, 56, 48, 48>>, <<68, 70, 70, 70>>, <<69, 48, 48, 48>>,
     <<48, 48, 52, 49>>}

UInit == Init

UAppend ==
    /\ uphase = "input"
    /\ \/ Len(raw) < MaxRaw
       \/ UnescapeString(raw).err = "UnfinishedEscape"
    /\ \E c \in UChars : raw' = Append(raw, c)
    /\ UNCHANGED <<uphase, ures, tvars, pvars>>

UAppendEscape ==
    /\ uphase = "input"
    /\ Len(raw) <= 2 * MaxRaw
    /\ UnescapeString(raw).err # "UnfinishedEscape"
    /\ \E h \in UHex : raw' = raw \o <<Backslash, Ch_u>> \o h
    /\ UNCHANGED <<uphase, ures, tvars, pvars>>

DoUnescape ==
    /\ uphase = "input"
    /\ uphase' = "unescaped"
    /\ ures' = UnescapeString(raw)
    /\ UNCHANGED <<raw, tvars, pvars>>

UNext ==
    \/ UAppend
    \/ UAppendEscape
    \/ DoUnescape

SpecUnescape == UInit /\ [][UNext]_vars

(***************************************************************************)
(* Claims about the parser (checked under Spec).                           *)
(***************************************************************************)
Parsed == pphase = "parsed"

\* C1: for every token sequence parse_tokens never reads a token at an
\* index >= the length of the sequence; when the tokens run out before the
\* value is complete the result is an error value, not a panic.
C1_NoReadPastEnd ==
    Parsed => ~(pres.status = "panic" /\ pres.err = "index_out_of_bounds")

\* The tokens that start no value
StrayTypes == {"Comma", "Colon", "RightBracket", "RightBrace"}

\* C3: whenever a value is to be parsed and the token under the cursor is a
\* Comma, a Colon, a RightBracket or a RightBrace, the parse ends with a
\* TokenParseError value; it does not abort.
C3_StrayTokenError ==
    Parsed =>
        /\ (tokens # <<>> /\ tokens[1].type \in StrayTypes) => pres.status = "err"
        /\ ~(pres.status = "panic" /\ pres.err = "todo")

\* toks with the token t inserted before the cursor position k
InsertAt(toks, k, t) ==
    SubSeq(toks, 1, k) \o <<t>> \o SubSeq(toks, k + 1, Len(toks))

\* The parse returned an array or object with at least one element; its
\* closing token is then the one before the cursor, at pres.index - 1
ParsedNonEmptyContainer ==
    /\ Parsed
    /\ pres.status = "ok"
    /\ pres.val.kind \in {"Array", "Object"}
    /\ DOMAIN pres.val.val # {}

\* The same value, the cursor one past the closing token, with a Comma
\* inserted before the closing token
SameWithTrailingComma ==
    ParseTokens(InsertAt(tokens, pres.index - 1, Tok("Comma")), 0)
        = POk(pres.val, pres.index + 1)

\* C4 as stated: every sequence that parses to an array or object with at
\* least one element still parses, to the same value, with one Comma
\* inserted before the closing token.
C4_Original == ParsedNonEmptyContainer => SameWithTrailingComma

\* C4 as amended: as C4, for the sequences in which the closing token does
\* not already follow a Comma.
C4_TrailingComma ==
    (ParsedNonEmptyContainer /\ tokens[pres.index - 1].type # "Comma")
    => SameWithTrailingComma

\* C4 witness: { "a" : 1 } has parsed to an object of one entry
C4_Witness ==
    /\ ParsedNonEmptyContainer
    /\ tokens = <<Tok("LeftBrace"), TokString(Str_a), Tok("Colon"),
                  TokNumber(<<1, 0>>), Tok("RightBrace")>>
    /\ tokens[pres.index - 1].type # "Comma"
    /\ pres.val = VObject((Str_a :> VNumber(<<1, 0>>)))

\* The type of the token at cursor k, "end" past the last token
TypeAt(toks, k) == IF k < Len(toks) THEN toks[k + 1].type ELSE "end"

\* The cursor positions of an object's keys: k is one; the next is the
\* position after the Comma that follows the entry at k, when that entry is
\* a String, a Colon and a value that parses.
RECURSIVE KeyPositions(_, _)
KeyPositions(toks, k) ==
    LET r == ParseTokens(toks, k + 2)
    IN  {k} \cup
        IF /\ TypeAt(toks, k) = "String"
           /\ TypeAt(toks, k + 1) = "Colon"
           /\ UnescapeString(toks[k + 1].val).status = "ok"
           /\ r.status = "ok"
           /\ TypeAt(toks, r.index) = "Comma"
        THEN KeyPositions(toks, r.index + 1)
        ELSE {}

ObjectKeys ==
    IF TypeAt(tokens, 0) = "LeftBrace" THEN KeyPositions(tokens, 1) ELSE {}

BadKeyAt(k) == TypeAt(tokens, k) \notin {"String", "RightBrace", "end"}

NoColonAt(k) ==
    /\ TypeAt(tokens, k) = "String"
    /\ TypeAt(tokens, k + 1) \notin {"Colon", "end"}

NoSeparatorAt(k) ==
    /\ TypeAt(tokens, k) = "String"
    /\ TypeAt(tokens, k + 1) = "Colon"
    /\ UnescapeString(tokens[k + 1].val).status = "ok"
    /\ LET r == ParseTokens(tokens, k + 2)
       IN  /\ r.status = "ok"
           /\ TypeAt(tokens, r.index) \notin {"Comma", "RightBrace", "end"}

\* C5: in an object, wherever the fault occurs: a token at a key position
\* that is neither a String nor the closing RightBrace gives
\* ExpectedProperty; a token after a String key that is not a Colon gives
\* ExpectedColon; a token after an entry's value that is neither Comma nor
\* RightBrace gives ExpectedComma.
C5_ObjectFaults ==
    Parsed =>
        \A k \in ObjectKeys :
            /\ BadKeyAt(k) => pres.status = "err" /\ pres.err = "ExpectedProperty"
            /\ NoColonAt(k) => pres.status = "err" /\ pres.err = "ExpectedColon"
            /\ NoSeparatorAt(k) => pres.status = "err" /\ pres.err = "ExpectedComma"

\* C5 witness: in { "a" : 1 , "a" 1 the second entry lacks its colon
C5_Witness ==
    /\ Parsed
    /\ tokens = <<Tok("LeftBrace"), TokString(Str_a), Tok("Colon"),
                  TokNumber(<<1, 0>>), Tok("Comma"), TokString(Str_a),
                  TokNumber(<<1, 0>>)>>
    /\ 5 \in ObjectKeys /\ NoColonAt(5)
    /\ pres.err = "ExpectedColon"

\* The entries of an object that parsed, in order, from the key position k:
\* the decoded key and the value of each
RECURSIVE Entries(_, _)
Entries(toks, k) ==
    IF TypeAt(toks, k) # "String" THEN <<>>
    ELSE LET r == ParseTokens(toks, k + 2)
         IN  <<[key |-> UnescapeString(toks[k + 1].val).out, value |-> r.val]>>
             \o (IF TypeAt(toks, r.index) = "Comma"
                 THEN Entries(toks, r.index + 1) ELSE <<>>)

LastEntry(es, key) ==
    es[CHOOSE i \in 1..Len(es) :
         /\ es[i].key = key
         /\ \A j \in 1..Len(es) : es[j].key = key => j <= i]

\* C6: an object that parses holds each key once, keys compared after
\* escape decoding, and the value under a key is the value of that key's
\* last entry in the token sequence.
C6_LastWriteWins ==
    (Parsed /\ pres.status = "ok" /\ pres.val.kind = "Object") =>
        LET es == Entries(tokens, 1)
            keys == {es[i].key : i \in 1..Len(es)}
        IN  pres.val.val = [key \in keys |-> LastEntry(es, key).value]

\* C6 witness: { "a" : 1 , "a" : null } has parsed to the object
\* whose one key a holds Null
C6_Witness ==
    /\ Parsed
    /\ tokens = <<Tok("LeftBrace"), TokString(Str_a), Tok("Colon"),
                  TokNumber(<<1, 0>>), Tok("Comma"), TokString(Str_u0061),
                  Tok("Colon"), Tok("Null"), Tok("RightBrace")>>
    /\ pres = POk(VObject((Str_a :> VNull)), 9)

(***************************************************************************)
(* Claims about the tokenizer (checked under SpecTokenize).                *)
(***************************************************************************)
\* The number of consecutive backslashes that end s
RECURSIVE TrailingBackslashes(_)
TrailingBackslashes(s) ==
    IF s = <<>> \/ s[Len(s)] # Backslash THEN 0
    ELSE 1 + TrailingBackslashes(SubSeq(s, 1, Len(s) - 1))

\* A call of make_token has returned, or tokenize has
TokenMade == tphase = "make_token"
Tokenized == tphase = "tokenize"

\* The cursor position of the make_token call the state's result comes
\* from: the call made, or the last call of a tokenize that did not
\* return Ok.  -1 when there is none.
CallAt ==
    IF TokenMade THEN tstart
    ELSE IF Tokenized /\ tres.status # "ok" /\ tres.calls # <<>>
         THEN tres.calls[Len(tres.calls)]
    ELSE -1

\* The keyword a literal that starts with c must be
KeywordOf(c) == IF c = Ch_n THEN Lit_null ELSE IF c = Ch_t THEN Lit_true ELSE Lit_false

\* The text at cursor i is the whole keyword
KeywordAt(i) ==
    LET kw == KeywordOf(chars[i + 1])
    IN  /\ i + Len(kw) <= Len(chars)
        /\ SubSeq(chars, i + 1, i + Len(kw)) = kw

\* C2: at 'n', 't' or 'f' the text must be null, true or false exactly;
\* when a character differs or the input ends before the keyword is
\* complete, the result is the error UnfinishedLiteralValue and no character
\* is read at an index >= the length of the input.
C2_UnfinishedLiteral ==
    (/\ CallAt >= 0
     /\ chars[CallAt + 1] \in {Ch_n, Ch_t, Ch_f}
     /\ ~KeywordAt(CallAt))
    => /\ tres.status = "err"
       /\ tres.err = TokenizeErr("UnfinishedLiteralValue")

\* The cursor positions after the opening quote at i that hold a quote
\* preceded by an even number of consecutive backslashes
ClosingQuotes(i) ==
    {j \in (i + 1)..(Len(chars) - 1) :
        /\ chars[j + 1] = Quote
        /\ TrailingBackslashes(SubSeq(chars, i + 2, j)) % 2 = 0}

FirstClosingQuote(i) ==
    CHOOSE j \in ClosingQuotes(i) : \A k \in ClosingQuotes(i) : j <= k

\* C7: after an opening quote the String token holds exactly the characters,
\* escapes not decoded, up to but excluding the first later quote preceded
\* by an even number of consecutive backslashes, and the cursor rests on
\* that quote; if the input ends before such a quote, the result is
\* UnclosedQuotes.
C7_StringScan ==
    (CallAt >= 0 /\ chars[CallAt + 1] = Quote)
    => IF ClosingQuotes(CallAt) = {}
       THEN /\ tres.status = "err"
            /\ tres.err = TokenizeErr("UnclosedQuotes")
       ELSE /\ TokenMade
            /\ tres.status = "ok"
            /\ tres.tokens =
                 <<TokString(SubSeq(chars, CallAt + 2, FirstClosingQuote(CallAt)))>>
            /\ tres.index = FirstClosingQuote(CallAt)

\* C7 witness: make_token on the four characters "\\" has made the string
\* of the two backslashes, the cursor on the closing quote at index 3
C7_Witness ==
    /\ TokenMade
    /\ chars = <<Quote, Backslash, Backslash, Quote>>
    /\ tres.status = "ok"
    /\ tres.tokens = <<TokString(<<Backslash, Backslash>>)>>
    /\ tres.index = 3

\* A '.' stands where a token must start
DotAtTokenStart == CallAt >= 0 /\ chars[CallAt + 1] = Dot

\* C10 as stated: a number text that is not a floating-point literal, such
\* as a lone '.', makes tokenize fail with ParseNumberError.
C10_Original ==
    (Tokenized /\ DotAtTokenStart)
    => /\ tres.status = "err"
       /\ tres.err = TokenizeErr("ParseNumberError")

\* C10 as amended: number scanning starts at an ASCII digit only and the
\* text it collects is always a floating-point literal, so no input makes
\* tokenize fail with ParseNumberError; a '.' where a token must start (the
\* inputs . and [.] ) fails with CharNotRecognized('.').
C10_NumberScan ==
    /\ tres.err.name # "ParseNumberError"
    /\ DotAtTokenStart
       => /\ tres.status = "err"
          /\ tres.err = CharNotRecognized(Dot)

\* C10 witness: tokenize of [. has failed at the '.'
C10_Witness ==
    /\ Tokenized
    /\ chars = <<LeftBracket, Dot>>
    /\ tres.status = "err"
    /\ tres.err = CharNotRecognized(Dot)

(***************************************************************************)
(* Claims about unescape_string (checked under SpecUnescape).              *)
(***************************************************************************)
Unescaped == uphase = "unescaped"

\* pre is decoded without error and does not end in an escaping backslash
Settled(pre) ==
    /\ UnescapeString(pre).status = "ok"
    /\ TrailingBackslashes(pre) % 2 = 0

IsHexDigit(c) == c \in (48..57) \cup (65..70) \cup (97..102)
HexValue(c) == IF c <= 57 THEN c - 48 ELSE IF c <= 70 THEN c - 55 ELSE c - 87

\* The positions k of raw where a Unicode escape starts: raw[k] is an
\* escaping backslash and raw[k+1] is 'u'
UnicodeEscapes ==
    {k \in 1..(Len(raw) - 1) :
        /\ raw[k] = Backslash /\ raw[k + 1] = Ch_u
        /\ Settled(SubSeq(raw, 1, k - 1))}

\* What the claim says of the escape that starts at k
UnicodeEscapeAsClaimed(k) ==
    LET pre == UnescapeString(SubSeq(raw, 1, k - 1)).out
        rest == SubSeq(raw, k + 2, Len(raw))
        read == IF Len(rest) < 4 THEN Len(rest) ELSE 4
        cp == 4096 * HexValue(rest[1]) + 256 * HexValue(rest[2])
              + 16 * HexValue(rest[3]) + HexValue(rest[4])
        suf == UnescapeString(SubSeq(rest, 5, Len(rest)))
    IN  IF \E j \in 1..read : ~IsHexDigit(rest[j])
        THEN ures = UErr("InvalidHexValue")
        ELSE IF Len(rest) < 4 THEN ures = UErr("UnfinishedEscape")
        ELSE IF cp \in 55296..57343 THEN ures = UErr("InvalidCodePointValue")
        ELSE IF suf.status = "ok" THEN ures = UOk(pre \o <<cp>> \o suf.out)
        ELSE ures = suf

\* C8: after a backslash and 'u' the next four characters are read in order;
\* the string ending first gives UnfinishedEscape, a character that is not a
\* hexadecimal digit gives InvalidHexValue, otherwise the code point
\* 4096*h1 + 256*h2 + 16*h3 + h4 is appended as one character, unless it is
\* a surrogate (D800..DFFF), which gives InvalidCodePointValue: surrogate
\* escapes are never combined.
C8_UnicodeEscape ==
    Unescaped => \A k \in UnicodeEscapes : UnicodeEscapeAsClaimed(k)

\* C8 witness: a non-ASCII escape has been decoded to one character, and
\* two surrogate escapes in a row have been refused
C8_Witness_Decoded ==
    /\ Unescaped
    /\ raw = <<Backslash, Ch_u, 68, 55, 70, 70>>
    /\ ures = UOk(<<55295>>)

C8_Witness_SurrogatePair ==
    /\ Unescaped
    /\ raw = <<Backslash, Ch_u, 68, 56, 48, 48, Backslash, Ch_u, 68, 70, 70, 70>>
    /\ ures = UErr("InvalidCodePointValue")

\* The character the simple escape \c stands for, as the code decodes it
SimpleEscape(c) ==
    CASE c = Quote -> 34
      [] c = Backslash -> 92
      [] c = Ch_b -> 8
      [] c = Ch_n -> 10
      [] c = Ch_r -> 13
      [] c = Ch_t -> 9
      [] c = Ch_f -> 18
      [] OTHER -> c

\* The same table as the claim states it: 'f' stands for itself
SimpleEscapeAsClaimed(c) ==
    CASE c = Quote -> 34
      [] c = Backslash -> 92
      [] c = Ch_b -> 8
      [] c = Ch_n -> 10
      [] c = Ch_r -> 13
      [] c = Ch_t -> 9
      [] OTHER -> c

\* raw ends in a simple escape: an escaping backslash and a character not 'u'
EndsInSimpleEscape ==
    /\ Len(raw) >= 2
    /\ raw[Len(raw) - 1] = Backslash
    /\ raw[Len(raw)] # Ch_u
    /\ Settled(SubSeq(raw, 1, Len(raw) - 2))

\* raw ends in a character that no backslash escapes
EndsInPlainChar ==
    /\ Len(raw) >= 1
    /\ raw[Len(raw)] # Backslash
    /\ Settled(SubSeq(raw, 1, Len(raw) - 1))

PlainCharCopied ==
    EndsInPlainChar =>
        ures = UOk(UnescapeString(SubSeq(raw, 1, Len(raw) - 1)).out
                   \o <<raw[Len(raw)]>>)

\* C9 as stated: a backslash followed by c gives quote, backslash, backspace,
\* newline, carriage return, tab for the six named escapes and c itself for
\* every other c except 'u' (so also for 'f'); other characters are copied.
C9_Original ==
    Unescaped =>
        /\ EndsInSimpleEscape =>
             ures = UOk(UnescapeString(SubSeq(raw, 1, Len(raw) - 2)).out
                        \o <<SimpleEscapeAsClaimed(raw[Len(raw)])>>)
        /\ PlainCharCopied

\* C9 as amended: as C9, but a backslash followed by 'f' gives the one
\* character U+0012; every character other than the seven named ones and
\* 'u' still stands for itself, and no error is raised.
C9_SimpleEscape ==
    Unescaped =>
        /\ EndsInSimpleEscape =>
             ures = UOk(UnescapeString(SubSeq(raw, 1, Len(raw) - 2)).out
                        \o <<SimpleEscape(raw[Len(raw)])>>)
        /\ PlainCharCopied

\* C9 witness: / then \f has been decoded to / and U+0012
C9_Witness ==
    /\ Unescaped
    /\ raw = <<47, Backslash, Ch_f>>
    /\ ures = UOk(<<47, 18>>)

(***************************************************************************)
(* The facade parse (src/lib.rs): tokenize the text, then parse_tokens on  *)
(* the tokens with a fresh cursor 0.  The result keeps both stages: tok is *)
(* what tokenize returned and res what parse_tokens did; res is the empty  *)
(* NoParseRes when tokenize did not return Ok and parse_tokens never ran.  *)
(* parse returns Ok(res.val) iff res.status = "ok",                        *)
(* Err(ParseError::TokenizeError(tok.err)) iff tok.status = "err" and      *)
(* Err(ParseError::TokenParseError(res.err)) iff res.status = "err".       *)
(***************************************************************************)
\* a slip: tokens left over after the value are refused
Parse_strict(input) ==
    LET t == Tokenize(input)
        r == ParseTokens(t.tokens, 0)
    IN  IF t.status # "ok" THEN [tok |-> t, res |-> NoParseRes]
        ELSE IF r.status = "ok" /\ r.index # Len(t.tokens)
        THEN [tok |-> t, res |-> PErr("ExpectedComma", r.index)]
        ELSE [tok |-> t, res |-> r]

Parse(input) ==
    LET t == Tokenize(input)
    IN  IF t.status # "ok" THEN [tok |-> t, res |-> NoParseRes]
        ELSE [tok |-> t, res |-> ParseTokens(t.tokens, 0)]

(***************************************************************************)
(* The facade's specification.  The text is built one character at a time  *)
(* from FChars and parse is applied to it.  A text is extended while       *)
(* tokenize runs out of characters on it (a keyword not yet complete), or  *)
(* tokenize returns Ok and parse_tokens either runs out of tokens or       *)
(* returns a value with at most MaxTrailing tokens after it.               *)
(***************************************************************************)
MaxText == 7
MaxTrailing == 1

FChars == {32, LeftBracket, RightBracket, Comma, Colon, 49, Ch_n, Ch_u, 108}

TextOpen(cs) ==
    LET t == Tokenize(cs)
        r == ParseTokens(t.tokens, 0)
    IN  \/ t.status = "panic"
        \/ /\ t.status = "ok"
           /\ \/ r.status = "panic" /\ r.err = "index_out_of_bounds"
              \/ r.status = "ok" /\ Len(t.tokens) - r.index <= MaxTrailing

FInit == Init

FAppend ==
    /\ tphase = "input"
    /\ Len(chars) < MaxText
    /\ TextOpen(chars)
    /\ \E c \in FChars : chars' = Append(chars, c)
    /\ UNCHANGED <<tphase, tstart, tres, pvars, uvars>>

DoParseText ==
    /\ tphase = "input"
    /\ tphase' = "parse"
    /\ LET r == Parse(chars)
       IN  /\ tres' = r.tok
           /\ tokens' = r.tok.tokens
           /\ pres' = r.res
    /\ UNCHANGED <<chars, tstart, pphase, uvars>>

FNext ==
    \/ FAppend
    \/ DoParseText

SpecFacade == FInit /\ [][FNext]_vars

(***************************************************************************)
(* Claims about the facade (checked under SpecFacade).                     *)
(***************************************************************************)
TextParsed == tphase = "parse"

\* The lengths n of the prefixes of tokens that are one complete value:
\* parse_tokens on the first n tokens alone returns a value with the cursor
\* at n
CompleteValues ==
    {n \in 1..Len(tokens) :
        LET r == ParseTokens(SubSeq(tokens, 1, n), 0)
        IN  r.status = "ok" /\ r.index = n}

\* C11: parse never checks that all tokens were consumed: for every input
\* that tokenizes and whose tokens begin with one complete value, parse
\* returns that value, the cursor one past the value's last token, and what
\* follows is ignored as if it were not there.
C11_TrailingIgnored ==
    (TextParsed /\ tres.status = "ok") =>
        \A n \in CompleteValues :
            pres = ParseTokens(SubSeq(tokens, 1, n), 0)

\* C11 witness: the text "[] ]" has parsed to the empty Array, the cursor at
\* 2 of the three tokens and the stray RightBracket left alone
C11_Witness ==
    /\ TextParsed
    /\ chars = <<LeftBracket, RightBracket, 32, RightBracket>>
    /\ tokens = <<Tok("LeftBracket"), Tok("RightBracket"), Tok("RightBracket")>>
    /\ CompleteValues = {2}
    /\ pres = POk(VArray(<<>>), 2)

====
